---- MODULE Spec2Model ----
(***************************************************************************)
(* Jsonary: a file-backed JSON record store (class Jsonary) and its        *)
(* chainable QueryBuilder.  JavaScript reference semantics are modelled    *)
(* with two heaps: `heap` holds the plain objects (records and nested      *)
(* maps), `arrs` holds the array objects (the store's data array and the   *)
(* arrays builders keep as originalData).  Strings are sequences of        *)
(* one-character strings, so that indexOf, substring, trim and split are   *)
(* computed as the code computes them.                                     *)
(***************************************************************************)
EXTENDS Integers, Sequences, FiniteSets, TLC

(***************************************************************************)
(* Bounds of the model.                                                    *)
(***************************************************************************)
MaxObj == 4
MaxLen == 3
NumBuilders == 2
MaxSteps == 3
MaxChain == 4
MaxFaultSteps == 2
MaxPathSteps == 3
MaxParseCalls == 1
MaxNestedSteps == 3
MaxScalarSteps == 2
MaxReadSteps == 4

(***************************************************************************)
(* JavaScript values.  A value is a pair <<tag, payload>>.                 *)
(***************************************************************************)
Undef == <<"undef", 0>>
Null == <<"null", 0>>
Bool(b) == <<"bool", b>>
Num(n) == <<"num", n>>
StrV(s) == <<"str", s>>
Obj(id) == <<"obj", id>>
\* an array held in a record: an object of the heap whose properties are its
\* indices and length
Arr(id) == <<"array", id>>
\* a built-in function, as read from Object.prototype
Fn(name) == <<"fn", name>>

Tag(v) == v[1]
\* typeof v === 'object' && v !== null
IsObj(v) == Tag(v) \in {"obj", "array"}
IsArray(v) == Tag(v) = "array"
IsNum(v) == Tag(v) = "num"
IsStr(v) == Tag(v) = "str"

EmptyMap == [k \in {} |-> Undef]

(***************************************************************************)
(* String primitives of the JavaScript runtime the code relies on.         *)
(***************************************************************************)
Sub(s, from, to) == [i \in 1..(to - from + 1) |-> s[from + i - 1]]

\* String.prototype.substring(from) and substring(0, to), 0-based.
SubstringFrom(s, from) == IF from >= Len(s) THEN <<>> ELSE Sub(s, from + 1, Len(s))
SubstringTo(s, to) == IF to <= 0 THEN <<>> ELSE Sub(s, 1, to)

\* Array.prototype.splice(i, 1), i counted from 1
Splice(l, i) == SubstringTo(l, i - 1) \o SubstringFrom(l, i)

\* true when `needle` occurs in s at 0-based position i
OccursAt(s, needle, i) ==
  /\ i >= 0
  /\ i + Len(needle) <= Len(s)
  /\ \A j \in 1..Len(needle) : s[i + j] = needle[j]

\* String.prototype.indexOf: first 0-based occurrence, -1 when there is none
IndexOf(s, needle) ==
  LET hits == {i \in 0..Len(s) : OccursAt(s, needle, i)}
  IN IF hits = {} THEN -1 ELSE CHOOSE i \in hits : \A j \in hits : i <= j

Includes(s, needle) == IndexOf(s, needle) # -1
StartsWith(s, needle) == OccursAt(s, needle, 0)
EndsWith(s, needle) == OccursAt(s, needle, Len(s) - Len(needle))

RECURSIVE TrimStart(_)
TrimStart(s) == IF s # <<>> /\ Head(s) = " " THEN TrimStart(Tail(s)) ELSE s

RECURSIVE TrimEnd(_)
TrimEnd(s) ==
  IF s # <<>> /\ s[Len(s)] = " " THEN TrimEnd(SubstringTo(s, Len(s) - 1)) ELSE s

\* String.prototype.trim
Trim(s) == TrimEnd(TrimStart(s))

\* String.prototype.split('.')
RECURSIVE SplitDot(_)
SplitDot(s) ==
  LET i == IndexOf(s, <<".">>)
  IN IF i = -1 THEN <<s>>
     ELSE <<SubstringTo(s, i)>> \o SplitDot(SubstringFrom(s, i + 1))

Digits == <<"0", "1", "2", "3", "4", "5", "6", "7", "8", "9">>
IsDigit(c) == \E d \in 1..10 : Digits[d] = c
DigitVal(c) == (CHOOSE d \in 1..10 : Digits[d] = c) - 1

RECURSIVE DecimalValue(_)
DecimalValue(s) ==
  IF s = <<>> THEN 0
  ELSE 10 * DecimalValue(SubstringTo(s, Len(s) - 1)) + DigitVal(s[Len(s)])

\* Number(s) for the strings of the model's alphabet (no sign, decimal
\* point, exponent or radix prefix occurs in them): white space around the
\* text is dropped, a run of decimal digits is that integer, the empty text
\* is 0, any other text is NaN.
NumberIsNaN(s) == \E i \in 1..Len(Trim(s)) : ~IsDigit(Trim(s)[i])
NumberOf(s) == DecimalValue(Trim(s))

(***************************************************************************)
(* Constant.ts: the operator table and its length-sorted list.             *)
(***************************************************************************)
queryOperators ==
  [eq |-> <<"=">>,
   neq |-> <<"!", "=">>,
   gt |-> <<">">>,
   lt |-> <<"<">>,
   gte |-> <<">", "=">>,
   lte |-> <<"<", "=">>,
   contains |-> <<"c", "o", "n", "t", "a", "i", "n", "s">>,
   startsWith |-> <<"s", "t", "a", "r", "t", "s", "W", "i", "t", "h">>,
   endsWith |-> <<"e", "n", "d", "s", "W", "i", "t", "h">>]

\* Object.values(queryOperators): the values in property order
OperatorValues ==
  <<queryOperators.eq, queryOperators.neq, queryOperators.gt, queryOperators.lt,
    queryOperators.gte, queryOperators.lte, queryOperators.contains,
    queryOperators.startsWith, queryOperators.endsWith>>

\* Array.prototype.sort with (a, b) => b.length - a.length: a stable sort by
\* descending length, written as a stable insertion sort.
RECURSIVE InsertByLength(_, _)
InsertByLength(sorted, x) ==
  IF sorted = <<>> THEN <<x>>
  ELSE IF Len(Head(sorted)) >= Len(x)
       THEN <<Head(sorted)>> \o InsertByLength(Tail(sorted), x)
       ELSE <<x>> \o sorted

RECURSIVE SortByLengthDesc(_)
SortByLengthDesc(s) ==
  IF s = <<>> THEN <<>>
  ELSE InsertByLength(SortByLengthDesc(SubstringTo(s, Len(s) - 1)), s[Len(s)])

\* the operator list in table order, not sorted
getOperatorsUnsorted == OperatorValues

\* the list sorted by descending length with symbols of equal length in the
\* reverse of their table order
getOperatorsTiesReversed ==
  SortByLengthDesc([i \in 1..Len(OperatorValues) |->
                      OperatorValues[Len(OperatorValues) + 1 - i]])

getOperatorsSorted == SortByLengthDesc(OperatorValues)

(***************************************************************************)
(* QueryBuilder: the pure helpers.                                         *)
(***************************************************************************)
\* JsonaryCondition | null; the null result has ok = FALSE
NoCondition == [ok |-> FALSE, field |-> <<>>, operator |-> <<>>, value |-> Undef]
Condition(f, o, v) == [ok |-> TRUE, field |-> f, operator |-> o, value |-> v]

stripQuotes(value) ==
  IF \/ (StartsWith(value, <<"\"">>) /\ EndsWith(value, <<"\"">>))
     \/ (StartsWith(value, <<"'">>) /\ EndsWith(value, <<"'">>))
  THEN IF Len(value) <= 1 THEN <<>> ELSE Sub(value, 2, Len(value) - 1)
  ELSE value

parseSpecialValue(value) ==
  CASE value = <<"t", "r", "u", "e">> -> Bool(TRUE)
    [] value = <<"f", "a", "l", "s", "e">> -> Bool(FALSE)
    [] value = <<"n", "u", "l", "l">> -> Null
    [] value = <<"u", "n", "d", "e", "f", "i", "n", "e", "d">> -> Undef
    [] OTHER -> IF ~NumberIsNaN(value) /\ value # <<>>
                THEN Num(NumberOf(value))
                ELSE StrV(value)

\* the loop of parseCondition over the sorted operators, from position k on
RECURSIVE ParseWith(_, _, _)
ParseWith(condition, operators, k) ==
  IF k > Len(operators) THEN NoCondition
  ELSE LET op == operators[k]
           index == IndexOf(condition, op)
       IN IF index # -1
          THEN LET value == Trim(SubstringFrom(condition, index + Len(op)))
               IN Condition(Trim(SubstringTo(condition, index)), op,
                            parseSpecialValue(stripQuotes(value)))
          ELSE ParseWith(condition, operators, k + 1)

\* parseCondition: the result for `condition` given the static cache
parseCondition(cch, condition) ==
  IF condition \in DOMAIN cch THEN cch[condition]
  ELSE ParseWith(condition, getOperatorsSorted, 1)

\* a cache that keeps only the entry of the condition parsed last
CacheMostRecent(cch, condition) ==
  [s \in {condition} |-> ParseWith(condition, getOperatorsSorted, 1)]

\* the static cache conditionRecent after parseCondition(condition)
CacheAfterParse(cch, condition) ==
  IF condition \in DOMAIN cch THEN cch
  ELSE [s \in DOMAIN cch \cup {condition} |->
          IF s = condition THEN ParseWith(condition, getOperatorsSorted, 1)
          ELSE cch[s]]

\* function-valued members every object inherits from Object.prototype
InheritedKeys ==
  {<<"c", "o", "n", "s", "t", "r", "u", "c", "t", "o", "r">>,
   <<"t", "o", "S", "t", "r", "i", "n", "g">>,
   <<"v", "a", "l", "u", "e", "O", "f">>}

KeyLength == <<"l", "e", "n", "g", "t", "h">>
\* the property name of array index i (counted from 0)
IndexKey(i) == <<Digits[i + 1]>>

\* obj[key] for a value of the heap h: an own property (of an object, or the
\* length and the characters of a string), else an inherited one, else
\* undefined.  Reading a property of null or undefined raises instead: see
\* getNestedValueThrows.
Prop(h, v, key) ==
  IF IsObj(v) /\ key \in DOMAIN h[v[2]] THEN h[v[2]][key]
  ELSE IF IsStr(v) /\ key = KeyLength THEN Num(Len(v[2]))
  ELSE IF IsStr(v) /\ \E i \in 1..Len(v[2]) : i <= 10 /\ IndexKey(i - 1) = key
       THEN StrV(<<v[2][CHOOSE i \in 1..Len(v[2]) : i <= 10 /\ IndexKey(i - 1) = key]>>)
  ELSE IF v \notin {Null, Undef} /\ key \in InheritedKeys THEN Fn(key)
       ELSE Undef

\* getNestedValue raises a TypeError: a path without a dot is read from obj
\* directly, and obj is null or undefined
getNestedValueThrows(obj, path) == ~Includes(path, <<".">>) /\ obj \in {Null, Undef}

\* the loop of getNestedValue over the path segments
RECURSIVE WalkPath(_, _, _)
WalkPath(h, current, keys) ==
  IF keys = <<>> THEN current
  ELSE IF ~IsObj(current) THEN Undef
       ELSE WalkPath(h, Prop(h, current, Head(keys)), Tail(keys))

getNestedValue(h, obj, path) ==
  IF ~Includes(path, <<".">>) THEN Prop(h, obj, path)
  ELSE WalkPath(h, obj, SplitDot(path))

\* evaluateCondition raises on item
evaluateThrows(item, condition) == getNestedValueThrows(item, condition.field)

\* ToNumber of the relational operators: a string of digits becomes a number
Coerced(v) == IF IsStr(v) /\ ~NumberIsNaN(v[2]) THEN Num(NumberOf(v[2])) ELSE v

\* evaluateCondition without the typeof checks on the numeric comparisons
evaluateCoercing(h, item, condition) ==
  LET value == condition.value
      fieldValue == getNestedValue(h, item, condition.field)
      op == condition.operator
      a == Coerced(fieldValue)
      b == Coerced(value)
      bothNum == IsNum(a) /\ IsNum(b)
      bothStr == IsStr(fieldValue) /\ IsStr(value)
  IN CASE op = queryOperators.eq -> fieldValue = value
       [] op = queryOperators.neq -> fieldValue # value
       [] op = queryOperators.gt -> bothNum /\ a[2] > b[2]
       [] op = queryOperators.lt -> bothNum /\ a[2] < b[2]
       [] op = queryOperators.gte -> bothNum /\ a[2] >= b[2]
       [] op = queryOperators.lte -> bothNum /\ a[2] <= b[2]
       [] op = queryOperators.contains -> bothStr /\ Includes(fieldValue[2], value[2])
       [] op = queryOperators.startsWith -> bothStr /\ StartsWith(fieldValue[2], value[2])
       [] op = queryOperators.endsWith -> bothStr /\ EndsWith(fieldValue[2], value[2])
       [] OTHER -> FALSE

evaluateCondition(h, item, condition) ==
  LET value == condition.value
      fieldValue == getNestedValue(h, item, condition.field)
      op == condition.operator
      bothNum == IsNum(fieldValue) /\ IsNum(value)
      bothStr == IsStr(fieldValue) /\ IsStr(value)
  IN CASE op = queryOperators.eq -> fieldValue = value
       [] op = queryOperators.neq -> fieldValue # value
       [] op = queryOperators.gt -> bothNum /\ fieldValue[2] > value[2]
       [] op = queryOperators.lt -> bothNum /\ fieldValue[2] < value[2]
       [] op = queryOperators.gte -> bothNum /\ fieldValue[2] >= value[2]
       [] op = queryOperators.lte -> bothNum /\ fieldValue[2] <= value[2]
       [] op = queryOperators.contains -> bothStr /\ Includes(fieldValue[2], value[2])
       [] op = queryOperators.startsWith -> bothStr /\ StartsWith(fieldValue[2], value[2])
       [] op = queryOperators.endsWith -> bothStr /\ EndsWith(fieldValue[2], value[2])
       [] OTHER -> FALSE

(***************************************************************************)
(* Heap primitives: objects are maps from property names to values.        *)
(***************************************************************************)
\* the identity a fresh object or array gets: the smallest one not in use
FreshId(used) ==
  CHOOSE n \in 1..(Cardinality(used) + 1) :
    n \notin used /\ \A m \in 1..(n - 1) : m \in used

Alloc(h, n, m) == [i \in DOMAIN h \cup {n} |-> IF i = n THEN m ELSE h[i]]

\* obj[key] = v
SetProp(h, id, key, v) ==
  [i \in DOMAIN h |->
     IF i = id
     THEN [k \in DOMAIN h[id] \cup {key} |-> IF k = key THEN v ELSE h[id][k]]
     ELSE h[i]]

\* setNestedValue after path.split('.'): walk the segments from obj `id`
RECURSIVE SetPath(_, _, _, _)
SetPath(h, id, keys, value) ==
  IF Len(keys) = 1 THEN SetProp(h, id, keys[1], value)
  ELSE LET key == Head(keys)
           cur == Prop(h, Obj(id), key)
       IN IF ~IsObj(cur)
          THEN LET n == FreshId(DOMAIN h)
                   h1 == SetProp(Alloc(h, n, EmptyMap), id, key, Obj(n))
               IN SetPath(h1, n, Tail(keys), value)
          ELSE SetPath(h, cur[2], Tail(keys), value)

setNestedValue(h, id, path, value) == SetPath(h, id, SplitDot(path), value)

\* Object.keys(data).forEach(key => ...) of update / updateWhere on one item;
\* data is the sequence of <<key, value>> pairs in property order
RECURSIVE ApplyPatch(_, _, _, _)
ApplyPatch(h, id, data, k) ==
  IF k > Len(data) THEN h
  ELSE LET key == data[k][1]
           h1 == IF Includes(key, <<".">>)
                 THEN setNestedValue(h, id, key, data[k][2])
                 ELSE SetProp(h, id, key, data[k][2])
       IN ApplyPatch(h1, id, data, k + 1)

(***************************************************************************)
(* JSON.stringify and JSON.parse.  A document is a tree without            *)
(* identities: <<"map", [key -> tree]>>, <<"arr", <<tree, ...>>>> or a      *)
(* primitive.  Key order and whitespace of the text are abstracted.        *)
(***************************************************************************)

RECURSIVE Stringify(_, _)
Stringify(h, v) ==
  CASE IsArray(v) ->
         LET m == h[v[2]]
         IN <<"arr", [i \in 1..m[KeyLength][2] |-> Stringify(h, m[IndexKey(i - 1)])]>>
    [] IsObj(v) ->
         LET m == h[v[2]]
             ks == {k \in DOMAIN m : m[k] # Undef /\ Tag(m[k]) # "fn"}
         IN <<"map", [k \in ks |-> Stringify(h, m[k])]>>
    [] v = Undef \/ Tag(v) = "fn" -> Null
    [] OTHER -> v

\* JSON.stringify(this.data, null, 2)
StringifyData(h, a) == <<"arr", [i \in 1..Len(a) |-> Stringify(h, a[i])]>>

\* the properties of an array object holding the elements l
ArrayProps(l) ==
  [k \in {IndexKey(i - 1) : i \in 1..Len(l)} \cup {KeyLength} |->
     IF k = KeyLength THEN Num(Len(l))
     ELSE l[CHOOSE i \in 1..Len(l) : IndexKey(i - 1) = k]]

\* JSON.parse builds fresh objects: the result is <<heap, value>>
RECURSIVE Revive(_, _)
RECURSIVE ReviveKeys(_, _, _, _)
RECURSIVE ReviveSeq(_, _, _, _)
Revive(h, t) ==
  CASE Tag(t) = "map" ->
         LET n == FreshId(DOMAIN h)
         IN <<ReviveKeys(Alloc(h, n, EmptyMap), n, t[2], DOMAIN t[2]), Obj(n)>>
    [] Tag(t) = "arr" ->
         LET n == FreshId(DOMAIN h)
             r == ReviveSeq(Alloc(h, n, EmptyMap), t[2], 1, <<>>)
         IN <<[r[1] EXCEPT ![n] = ArrayProps(r[2])], Arr(n)>>
    [] OTHER -> <<h, t>>

ReviveKeys(h, n, f, ks) ==
  IF ks = {} THEN h
  ELSE LET k == CHOOSE x \in ks : TRUE
           r == Revive(h, f[k])
       IN ReviveKeys(SetProp(r[1], n, k, r[2]), n, f, ks \ {k})

\* the elements of a parsed array, left to right: <<heap, sequence>>
ReviveSeq(h, ts, k, acc) ==
  IF k > Len(ts) THEN <<h, acc>>
  ELSE LET r == Revive(h, ts[k])
       IN ReviveSeq(r[1], ts, k + 1, Append(acc, r[2]))

\* the file at filePath: whether it exists, whether it can be read, and the
\* document its text holds; Garbled is a text that is not JSON
Garbled == <<"garbled", 0>>
NoFile == [exists |-> FALSE, readable |-> TRUE, content |-> Null]
FileOf(t) == [exists |-> TRUE, readable |-> TRUE, content |-> t]
Unreadable(t) == [exists |-> TRUE, readable |-> FALSE, content |-> t]

\* loadData without the Array.isArray test: the parsed document is wrapped
loadDataWrapping(h, f) ==
  IF ~f.exists \/ ~f.readable \/ f.content = Garbled THEN <<h, <<>>>>
  ELSE LET r == Revive(h, f.content) IN <<r[1], <<r[2]>>>>

\* loadData that takes only an array as the document
loadDataArraysOnly(h, f) ==
  IF ~f.exists \/ ~f.readable \/ f.content = Garbled THEN <<h, <<>>>>
  ELSE IF Tag(f.content) = "arr" THEN ReviveSeq(h, f.content[2], 1, <<>>)
       ELSE <<h, <<>>>>

\* Jsonary.loadData: <<heap, records>>
loadData(h, f) ==
  CASE ~f.exists -> <<h, <<>>>>
    [] f.exists /\ ~f.readable -> <<h, <<>>>>
    [] f.exists /\ f.readable /\ f.content = Garbled -> <<h, <<>>>>
    [] OTHER ->
         IF Tag(f.content) = "arr" THEN ReviveSeq(h, f.content[2], 1, <<>>)
         ELSE LET r == Revive(h, f.content) IN <<r[1], <<r[2]>>>>

(***************************************************************************)
(* The inputs the callers supply: records, condition strings, predicate    *)
(* functions and patches.                                                  *)
(***************************************************************************)
KeyA == <<"a">>
KeyP == <<"p">>
KeyQ == <<"q">>
PathPQ == <<"p", ".", "q">>

RecA1 == [k \in {KeyA} |-> Num(1)]
RecA2 == [k \in {KeyA} |-> Num(2)]

\* "a = 1", "p.q = 1" and a string without any operator symbol
CondA1 == <<"a", " ", "=", " ", "1">>
CondPQ1 == <<"p", ".", "q", " ", "=", " ", "1">>
CondBad == <<"a", " ", "1">>
CondStrings == {CondA1, CondPQ1, CondBad}
ParseableStrings == {s \in CondStrings : ParseWith(s, getOperatorsSorted, 1).ok}
BadStrings == CondStrings \ ParseableStrings

\* predicate functions: () => true and r => r.a === 2
FnPreds == {"all", "aIs2"}
CallFn(h, fn, item) ==
  CASE fn = "all" -> TRUE
    [] fn = "aIs2" -> Prop(h, item, KeyA) = Num(2)

StrCond(s) == [fn |-> FALSE, s |-> s, f |-> ""]
FnCond(f) == [fn |-> TRUE, s |-> <<>>, f |-> f]
Conds == {StrCond(s) : s \in CondStrings} \cup {FnCond(f) : f \in FnPreds}

\* patches as written by the caller: {a: 2}, {'p.q': 1} and {p: {}}.  The
\* value <<"new", m>> is an object literal, created when the call is made.
PatchA == <<<<KeyA, Num(2)>>>>
PatchPQ == <<<<PathPQ, Num(1)>>>>
PatchP == <<<<KeyP, <<"new", EmptyMap>>>>>>
Patches == {PatchA, PatchPQ, PatchP}

\* {p: {q: 1}} and the two-key patch {a: 3, 'p.q': 2}
PatchPObj == <<<<KeyP, <<"new", [k \in {KeyQ} |-> Num(1)]>>>>>>
PatchTwo == <<<<KeyA, Num(3)>>, <<PathPQ, Num(2)>>>>
WidePatches == Patches \cup {PatchPObj, PatchTwo}

\* evaluating the caller's patch expression: <<heap, data>>
RECURSIVE Literal(_, _, _, _)
Literal(h, ps, k, acc) ==
  IF k > Len(ps) THEN <<h, acc>>
  ELSE IF Tag(ps[k][2]) = "new"
       THEN LET n == FreshId(DOMAIN h)
            IN Literal(Alloc(h, n, ps[k][2][2]), ps, k + 1,
                       Append(acc, <<ps[k][1], Obj(n)>>))
       ELSE Literal(h, ps, k + 1, Append(acc, ps[k]))

\* the records the caller inserts, as object literals: {a: 1} and
\* {a: [18], p: {q: 1}}
DocA1 == <<"map", RecA1>>
DocDeep ==
  <<"map", [k \in {KeyA, KeyP} |->
              IF k = KeyA THEN <<"arr", <<Num(18)>>>>
              ELSE <<"map", [j \in {KeyQ} |-> Num(1)]>>]>>
InsertRecords == {DocA1, DocDeep}

\* the documents the file may hold when the store is constructed
DocTwo == <<"arr", <<DocA1, <<"map", RecA2>>>>>>
InitialFiles == {NoFile, FileOf(DocTwo)}

(***************************************************************************)
(* State.                                                                  *)
(***************************************************************************)
VARIABLES
  heap,      \* the objects: identity -> map
  arrs,      \* the arrays: identity -> sequence of values
  sdata,     \* Jsonary.data: the identity of the store's array
  file,      \* the file at filePath
  writable,  \* whether writeFileSync succeeds in this run
  torn,      \* whether a failing writeFileSync fails after it has opened the file
  bld,       \* the QueryBuilder instances
  cache,     \* QueryBuilder.conditionRecent
  op,        \* the last call: its name and the builder it was made on
  ret,       \* what the last call returned, or Threw
  steps,     \* number of calls made
  limit,     \* number of calls a run is followed for
  probe      \* the condition handed to evaluateCondition when it is called alone

vars ==
  <<heap, arrs, sdata, file, writable, torn, bld, cache, op, ret, steps, limit, probe>>

Void == <<"void", 0>>
Threw == <<"threw", 0>>
Count(n) == <<"count", n>>
List(l) == <<"list", l>>
\* a returned reference to the array with identity a itself
Ref(a) == <<"ref", a>>

Builders == 1..NumBuilders
NoBuilder ==
  [live |-> FALSE, parent |-> FALSE, originalData |-> 0, data |-> <<>>,
   conditions |-> <<>>]

Call(name, b) == [name |-> name, b |-> b]

\* the arrays and objects still referenced once a call has returned
LiveArrays(sd, bl) == {sd} \cup {bl[b].originalData : b \in {x \in Builders : bl[x].live}}

ObjectsIn(l) == {l[i][2] : i \in {j \in 1..Len(l) : IsObj(l[j])}}

\* the objects an object's properties refer to
Refs(h, o) == {h[o][k][2] : k \in {x \in DOMAIN h[o] : IsObj(h[o][x])}}

RECURSIVE Closure(_, _)
Closure(h, S) ==
  LET T == S \cup UNION {Refs(h, o) : o \in S}
  IN IF T = S THEN S ELSE Closure(h, T)

LiveObjects(h, ar, sd, bl) ==
  Closure(h, UNION {ObjectsIn(ar[a]) : a \in LiveArrays(sd, bl)}
             \cup UNION {ObjectsIn(bl[b].data) : b \in Builders})

\* the state after a call: unreferenced arrays and objects are dropped
Return(h, ar, sd, fl, bl, ch, o, r) ==
  LET la == LiveArrays(sd, bl)
      lo == LiveObjects(h, ar, sd, bl)
  IN /\ steps < limit
     /\ Cardinality(lo) <= MaxObj
     /\ \A a \in la : Len(ar[a]) <= MaxLen
     /\ heap' = [i \in lo |-> h[i]]
     /\ arrs' = [a \in la |-> ar[a]]
     /\ sdata' = sd
     /\ file' = fl
     /\ bld' = bl
     /\ cache' = ch
     /\ op' = o
     /\ ret' = r
     /\ steps' = steps + 1
     /\ UNCHANGED <<writable, torn, limit, probe>>

\* an array identity not referenced by any builder
FreshArray(bl) == FreshId({bl[b].originalData : b \in {x \in Builders : bl[x].live}})
SetArr(ar, a, l) == [i \in DOMAIN ar \cup {a} |-> IF i = a THEN l ELSE ar[i]]

(***************************************************************************)
(* Jsonary                                                                 *)
(***************************************************************************)
\* saveData: the file after the write, and whether the call throws.  A write
\* that fails before the file is opened leaves the file alone; one that fails
\* after writeFileSync has opened (and so truncated) it leaves a text that is
\* not JSON.
saveData(h, ar, sd) ==
  CASE writable ->
         [exists |-> TRUE, readable |-> (~file.exists \/ file.readable),
          content |-> StringifyData(h, ar[sd])]
    [] ~writable /\ torn ->
         [exists |-> TRUE, readable |-> (~file.exists \/ file.readable),
          content |-> Garbled]
    [] OTHER -> file
SaveResult(r) == IF writable THEN r ELSE Threw

Init ==
  /\ file \in InitialFiles
  /\ writable \in BOOLEAN
  /\ torn = FALSE
  /\ LET r == loadData(EmptyMap, file)
     IN /\ heap = r[1]
        /\ sdata = 1
        /\ arrs = [a \in {1} |-> r[2]]
  /\ bld = [b \in Builders |-> NoBuilder]
  /\ cache = EmptyMap
  /\ op = Call("new", 0)
  /\ ret = Void
  /\ steps = 0
  /\ limit = MaxSteps
  /\ probe = NoCondition

clear ==
  LET a == FreshArray(bld)
      ar == SetArr(arrs, a, <<>>)
  IN Return(heap, ar, a, saveData(heap, ar, a), bld, cache,
            Call("clear", 0), SaveResult(Void))

\* a test that takes a string that does not parse as matching every item
MatchesLoose(h, cch, c, item) ==
  IF c.fn THEN CallFn(h, c.f, item)
  ELSE LET parsed == parseCondition(cch, c.s)
       IN ~parsed.ok \/ evaluateCondition(h, item, parsed)

\* the test of one item against a string or function condition
Matches(h, cch, c, item) ==
  IF c.fn THEN CallFn(h, c.f, item)
  ELSE LET parsed == parseCondition(cch, c.s)
       IN parsed.ok /\ evaluateCondition(h, item, parsed)

\* the test of one item raises
MatchThrows(cch, c, item) ==
  /\ ~c.fn
  /\ LET parsed == parseCondition(cch, c.s)
     IN parsed.ok /\ evaluateThrows(item, parsed)

\* item[key] = data[key] and setNestedValue(item, key, ...) raise a TypeError
\* on an item that is not an object (the code runs in strict mode)
PatchThrows(item, data) == data # <<>> /\ ~IsObj(item)

\* removal by ascending index while iterating forward, from index i on
RECURSIVE ForwardRemove(_, _, _, _)
ForwardRemove(h, l, i, c) ==
  IF i > Len(l) THEN l
  ELSE IF Matches(h, cache, c, l[i])
       THEN ForwardRemove(h, Splice(l, i), i + 1, c)
       ELSE ForwardRemove(h, l, i + 1, c)

\* deleteWhere that removes in place by ascending index
deleteWhereForward(c) ==
  LET old == arrs[sdata]
      initialLength == Len(old)
      parsed == parseCondition(cache, c.s)
      replaced == c.fn \/ parsed.ok
      a == IF replaced THEN FreshArray(bld) ELSE sdata
      ar == IF replaced THEN SetArr(arrs, a, ForwardRemove(heap, old, 1, c)) ELSE arrs
      ch == IF c.fn THEN cache ELSE CacheAfterParse(cache, c.s)
  IN Return(heap, ar, a, saveData(heap, ar, a), bld, ch,
            Call("deleteWhere", 0),
            SaveResult(Count(initialLength - Len(ar[a]))))

deleteWhere(c) ==
  LET old == arrs[sdata]
      initialLength == Len(old)
      parsed == parseCondition(cache, c.s)
      replaced == c.fn \/ parsed.ok
      kept == IF c.fn
              THEN SelectSeq(old, LAMBDA item : ~CallFn(heap, c.f, item))
              ELSE SelectSeq(old, LAMBDA item : ~evaluateCondition(heap, item, parsed))
      a == IF replaced THEN FreshArray(bld) ELSE sdata
      ar == IF replaced THEN SetArr(arrs, a, kept) ELSE arrs
      ch == IF c.fn THEN cache ELSE CacheAfterParse(cache, c.s)
      threw == \E i \in 1..Len(old) : MatchThrows(cache, c, old[i])
  IN IF threw
     THEN Return(heap, arrs, sdata, file, bld, ch, Call("deleteWhere", 0), Threw)
     ELSE Return(heap, ar, a, saveData(heap, ar, a), bld, ch,
                 Call("deleteWhere", 0),
                 SaveResult(Count(initialLength - Len(ar[a]))))

\* a get that returns this.data itself instead of a copy
getSameList ==
  Return(heap, arrs, sdata, file, bld, cache,
         Call("get", 0), Ref(sdata))

\* get: [...this.data] is a new list of the same records
get ==
  Return(heap, arrs, sdata, file, bld, cache,
         Call("get", 0), List(arrs[sdata]))

\* insert(item) with a new object written as the literal t
insertNew(t) ==
  LET r == Revive(heap, t)
      h == r[1]
      ar == [arrs EXCEPT ![sdata] = Append(@, r[2])]
  IN Return(h, ar, sdata, saveData(h, ar, sdata), bld, cache,
            Call("insert", 0), SaveResult(Void))

\* insert(item) with a record the caller got from the store
insertSame(i) ==
  LET ar == [arrs EXCEPT ![sdata] = Append(@, arrs[sdata][i])]
  IN Return(heap, ar, sdata, saveData(heap, ar, sdata), bld, cache,
            Call("insert", 0), SaveResult(Void))

insertMany(m) ==
  LET n == FreshId(DOMAIN heap)
      h == Alloc(heap, n, m)
      a == FreshArray(bld)
      ar == SetArr(arrs, a, arrs[sdata] \o <<Obj(n)>>)
  IN Return(h, ar, a, saveData(h, ar, a), bld, cache,
            Call("insertMany", 0), SaveResult(Void))

reload ==
  LET r == loadData(heap, file)
      a == FreshArray(bld)
  IN Return(r[1], SetArr(arrs, a, r[2]), a, file, bld, cache,
            Call("reload", 0), Void)

\* this.data.forEach of updateWhere from item k on:
\* <<heap, updatedCount, whether the loop raised>>
RECURSIVE UpdateLoop(_, _, _, _, _, _, _)
UpdateLoop(h, l, k, cch, c, data, updatedCount) ==
  IF k > Len(l) THEN <<h, updatedCount, FALSE>>
  ELSE LET item == l[k]
           shouldUpdate == Matches(h, cch, c, item)
       IN IF MatchThrows(cch, c, item) THEN <<h, updatedCount, TRUE>>
          ELSE IF shouldUpdate
               THEN IF PatchThrows(item, data) THEN <<h, updatedCount, TRUE>>
                    ELSE UpdateLoop(ApplyPatch(h, item[2], data, 1), l, k + 1,
                                    cch, c, data, updatedCount + 1)
               ELSE UpdateLoop(h, l, k + 1, cch, c, data, updatedCount)

updateWhere(c, ps) ==
  LET lit == Literal(heap, ps, 1, <<>>)
      ch == IF c.fn \/ arrs[sdata] = <<>> THEN cache ELSE CacheAfterParse(cache, c.s)
      r == UpdateLoop(lit[1], arrs[sdata], 1, ch, c, lit[2], 0)
  IN IF r[3]
     THEN Return(r[1], arrs, sdata, file, bld, ch, Call("updateWhere", 0), Threw)
     ELSE Return(r[1], arrs, sdata, saveData(r[1], arrs, sdata), bld, ch,
                 Call("updateWhere", 0), SaveResult(Count(r[2])))

\* a synchronisation that saves before it takes the builder's array
syncSavingFirst(h, ar, updatedData) == saveData(h, ar, sdata)

syncFromQueryBuilder(h, ar, updatedData) == saveData(h, ar, updatedData)

(***************************************************************************)
(* QueryBuilder                                                            *)
(***************************************************************************)
\* new QueryBuilder(data, parent): data is the identity of the array passed
NewQueryBuilder(ar, data, parent) ==
  [live |-> TRUE, parent |-> parent, originalData |-> data, data |-> ar[data],
   conditions |-> <<>>]

\* where that filters the original data instead of the working copy
WhereOnOriginal(h, cch, q, c) ==
  LET from == arrs[q.originalData]
  IN IF c.fn
     THEN [q EXCEPT !.data = SelectSeq(from, LAMBDA item : CallFn(h, c.f, item))]
     ELSE LET parsed == parseCondition(cch, c.s)
          IN IF parsed.ok
             THEN [q EXCEPT !.conditions = Append(@, parsed),
                            !.data = SelectSeq(from, LAMBDA item :
                                                evaluateCondition(h, item, parsed))]
             ELSE q

\* where that empties the working copy when the string does not parse
WhereOnStrict(h, cch, q, c) ==
  IF c.fn
  THEN [q EXCEPT !.data = SelectSeq(@, LAMBDA item : CallFn(h, c.f, item))]
  ELSE LET parsed == parseCondition(cch, c.s)
       IN IF parsed.ok
          THEN [q EXCEPT !.conditions = Append(@, parsed),
                         !.data = SelectSeq(@, LAMBDA item :
                                             evaluateCondition(h, item, parsed))]
          ELSE [q EXCEPT !.data = <<>>]

\* QueryBuilder.where on the builder record q
WhereOn(h, cch, q, c) ==
  IF c.fn
  THEN [q EXCEPT !.data = SelectSeq(@, LAMBDA item : CallFn(h, c.f, item))]
  ELSE LET parsed == parseCondition(cch, c.s)
       IN IF parsed.ok
          THEN [q EXCEPT !.conditions = Append(@, parsed),
                         !.data = SelectSeq(@, LAMBDA item :
                                             evaluateCondition(h, item, parsed))]
          ELSE q

FreeSlot == CHOOSE b \in Builders : ~bld[b].live /\ \A x \in 1..(b - 1) : bld[x].live

\* Jsonary.where: new QueryBuilder(this.data, this).where(condition)
where(c) ==
  /\ \E b \in Builders : ~bld[b].live
  /\ LET b == FreeSlot
         q == WhereOn(heap, cache, NewQueryBuilder(arrs, sdata, TRUE), c)
         ch == IF c.fn THEN cache ELSE CacheAfterParse(cache, c.s)
         threw == \E i \in 1..Len(arrs[sdata]) : MatchThrows(cache, c, arrs[sdata][i])
     IN IF threw
        THEN Return(heap, arrs, sdata, file, bld, ch, Call("where", 0), Threw)
        ELSE Return(heap, arrs, sdata, file, [bld EXCEPT ![b] = q], ch,
                    Call("where", b), Void)

\* new QueryBuilder(store.get()): a builder without a parent
newBuilder ==
  /\ \E b \in Builders : ~bld[b].live
  /\ LET b == FreeSlot
         a == FreshArray(bld)
         ar == IF a = sdata THEN arrs ELSE SetArr(arrs, a, arrs[sdata])
     IN /\ a # sdata
        /\ Return(heap, ar, sdata, file,
                  [bld EXCEPT ![b] = NewQueryBuilder(ar, a, FALSE)], cache,
                  Call("new QueryBuilder", b), Void)

qbWhere(b, c) ==
  /\ bld[b].live
  /\ LET ch == IF c.fn THEN cache ELSE CacheAfterParse(cache, c.s)
         threw == \E i \in 1..Len(bld[b].data) : MatchThrows(cache, c, bld[b].data[i])
     IN IF threw
        THEN Return(heap, arrs, sdata, file,
                    [bld EXCEPT ![b].conditions = Append(@, parseCondition(cache, c.s))],
                    ch, Call("QueryBuilder.where", b), Threw)
        ELSE Return(heap, arrs, sdata, file,
                    [bld EXCEPT ![b] = WhereOn(heap, cache, @, c)], ch,
                    Call("QueryBuilder.where", b), Void)

qbCount(b) ==
  /\ bld[b].live
  /\ Return(heap, arrs, sdata, file, bld, cache,
            Call("QueryBuilder.count", b), Count(Len(bld[b].data)))

qbFirst(b) ==
  /\ bld[b].live
  /\ Return(heap, arrs, sdata, file, bld, cache,
            Call("QueryBuilder.first", b),
            IF bld[b].data = <<>> THEN Null ELSE bld[b].data[1])

qbGet(b) ==
  /\ bld[b].live
  /\ Return(heap, arrs, sdata, file, bld, cache,
            Call("QueryBuilder.get", b), List(bld[b].data))

\* this.data.forEach of update from item k on; it ends at an item on which
\* the assignment raises
RECURSIVE UpdateItems(_, _, _, _)
UpdateItems(h, l, k, data) ==
  IF k > Len(l) \/ PatchThrows(l[k], data) THEN h
  ELSE UpdateItems(ApplyPatch(h, l[k][2], data, 1), l, k + 1, data)

qbUpdate(b, ps) ==
  /\ bld[b].live
  /\ LET lit == Literal(heap, ps, 1, <<>>)
         h == UpdateItems(lit[1], bld[b].data, 1, lit[2])
         q == bld[b]
         sd == IF q.parent THEN q.originalData ELSE sdata
         threw == \E i \in 1..Len(q.data) : PatchThrows(q.data[i], lit[2])
     IN IF threw
        THEN Return(h, arrs, sdata, file, bld, cache,
                    Call("QueryBuilder.update", b), Threw)
        ELSE Return(h, arrs, sd,
                    IF q.parent THEN syncFromQueryBuilder(h, arrs, q.originalData)
                    ELSE file,
                    bld, cache, Call("QueryBuilder.update", b),
                    IF q.parent THEN SaveResult(Void) ELSE Void)

\* removal by ascending index: the index moves on after a removal
RECURSIVE AscendingRemove(_, _, _)
AscendingRemove(l, i, itemsToDelete) ==
  IF i > Len(l) THEN l
  ELSE IF l[i] \in itemsToDelete
       THEN AscendingRemove(Splice(l, i), i + 1, itemsToDelete)
       ELSE AscendingRemove(l, i + 1, itemsToDelete)

\* the loop of delete run from the first index up
DeleteLoopAscending(l, i, itemsToDelete) == AscendingRemove(l, 1, itemsToDelete)

\* the loop of delete: i runs from the last index down to the first
RECURSIVE DeleteLoop(_, _, _)
DeleteLoop(l, i, itemsToDelete) ==
  IF i < 1 THEN l
  ELSE IF l[i] \in itemsToDelete
       THEN DeleteLoop(Splice(l, i), i - 1, itemsToDelete)
       ELSE DeleteLoop(l, i - 1, itemsToDelete)

qbDelete(b) ==
  /\ bld[b].live
  /\ LET q == bld[b]
         deletedCount == Len(q.data)
         itemsToDelete == {q.data[i] : i \in 1..Len(q.data)}
         ar == [arrs EXCEPT ![q.originalData] = DeleteLoop(@, Len(@), itemsToDelete)]
         sd == IF q.parent THEN q.originalData ELSE sdata
     IN Return(heap, ar, sd,
               IF q.parent THEN syncFromQueryBuilder(heap, ar, q.originalData) ELSE file,
               [bld EXCEPT ![b].data = <<>>], cache,
               Call("QueryBuilder.delete", b),
               IF q.parent THEN SaveResult(Count(deletedCount)) ELSE Count(deletedCount))

\* the caller still holds the list the last get() returned
HoldsReturned ==
  /\ op.name \in {"get", "QueryBuilder.get", "returned.push", "returned.pop"}
  /\ Tag(ret) \in {"list", "ref"}

\* the caller's list.push(list[0] ?? null) on the list get() returned: a list
\* of its own changes alone, the store's array changes in place
returnedPush ==
  /\ HoldsReturned
  /\ LET l == IF Tag(ret) = "list" THEN ret[2] ELSE arrs[ret[2]]
         x == IF l = <<>> THEN Null ELSE l[1]
     IN IF Tag(ret) = "list"
        THEN Return(heap, arrs, sdata, file, bld, cache,
                    Call("returned.push", op.b), List(Append(l, x)))
        ELSE Return(heap, [arrs EXCEPT ![ret[2]] = Append(l, x)], sdata, file,
                    bld, cache, Call("returned.push", op.b), ret)

\* the caller's list.pop() on the list get() returned
returnedPop ==
  /\ HoldsReturned
  /\ LET l == IF Tag(ret) = "list" THEN ret[2] ELSE arrs[ret[2]]
     IN /\ l # <<>>
        /\ IF Tag(ret) = "list"
           THEN Return(heap, arrs, sdata, file, bld, cache,
                       Call("returned.pop", op.b), List(SubstringTo(l, Len(l) - 1)))
           ELSE Return(heap, [arrs EXCEPT ![ret[2]] = SubstringTo(l, Len(l) - 1)],
                       sdata, file, bld, cache, Call("returned.pop", op.b), ret)

Next ==
  \/ clear
  \/ \E c \in Conds : deleteWhere(c)
  \/ get
  \/ \E t \in InsertRecords : insertNew(t)
  \/ \E i \in 1..Len(arrs[sdata]) : insertSame(i)
  \/ insertMany(RecA2)
  \/ reload
  \/ \E c \in Conds, ps \in Patches : updateWhere(c, ps)
  \/ \E c \in Conds : where(c)
  \/ newBuilder
  \/ \E b \in Builders, c \in Conds : qbWhere(b, c)
  \/ \E b \in Builders : qbCount(b)
  \/ \E b \in Builders : qbFirst(b)
  \/ \E b \in Builders : qbGet(b)
  \/ \E b \in Builders, ps \in Patches : qbUpdate(b, ps)
  \/ \E b \in Builders : qbDelete(b)

Spec == Init /\ [][Next]_vars

(***************************************************************************)
(* Several builders made by store.where over one store, and their calls    *)
(* in any order.                                                           *)
(***************************************************************************)
InitBuilders ==
  /\ file = FileOf(DocTwo)
  /\ writable = TRUE
  /\ torn = FALSE
  /\ LET r == loadData(EmptyMap, file)
     IN /\ heap = r[1]
        /\ sdata = 1
        /\ arrs = [a \in {1} |-> r[2]]
  /\ bld = [b \in Builders |-> NoBuilder]
  /\ cache = EmptyMap
  /\ op = Call("new", 0)
  /\ ret = Void
  /\ steps = 0
  /\ limit = MaxChain
  /\ probe = NoCondition

NextBuilders ==
  \/ \E c \in Conds : where(c)
  \/ \E b \in Builders, c \in Conds : qbWhere(b, c)
  \/ \E b \in Builders : qbCount(b)
  \/ \E b \in Builders : qbFirst(b)
  \/ \E b \in Builders : qbGet(b)
  \/ \E b \in Builders, ps \in Patches : qbUpdate(b, ps)
  \/ \E b \in Builders : qbDelete(b)

SpecBuilders == InitBuilders /\ [][NextBuilders]_vars

(***************************************************************************)
(* The store over every kind of file, with writes that succeed, that fail  *)
(* before the file is opened, or that fail after it.                       *)
(***************************************************************************)
FaultFiles ==
  {NoFile, FileOf(Garbled), Unreadable(DocTwo), FileOf(DocTwo), FileOf(DocA1)}

InitFaults ==
  /\ file \in FaultFiles
  /\ writable \in BOOLEAN
  /\ torn \in BOOLEAN
  /\ writable => ~torn
  /\ LET r == loadData(EmptyMap, file)
     IN /\ heap = r[1]
        /\ sdata = 1
        /\ arrs = [a \in {1} |-> r[2]]
  /\ bld = [b \in Builders |-> NoBuilder]
  /\ cache = EmptyMap
  /\ op = Call("new", 0)
  /\ ret = Void
  /\ steps = 0
  /\ limit = MaxFaultSteps
  /\ probe = NoCondition

SpecFaults == InitFaults /\ [][Next]_vars

(***************************************************************************)
(* The store's own updateWhere and deleteWhere next to the builder path,   *)
(* with patches of several keys and patches that hold an object.           *)
(***************************************************************************)
InitPaths ==
  /\ file = FileOf(DocTwo)
  /\ writable = TRUE
  /\ torn = FALSE
  /\ LET r == loadData(EmptyMap, file)
     IN /\ heap = r[1]
        /\ sdata = 1
        /\ arrs = [a \in {1} |-> r[2]]
  /\ bld = [b \in Builders |-> NoBuilder]
  /\ cache = EmptyMap
  /\ op = Call("new", 0)
  /\ ret = Void
  /\ steps = 0
  /\ limit = MaxPathSteps
  /\ probe = NoCondition

NextPaths ==
  \/ \E c \in Conds, ps \in WidePatches : updateWhere(c, ps)
  \/ \E c \in Conds : deleteWhere(c)
  \/ \E i \in 1..Len(arrs[sdata]) : insertSame(i)
  \/ \E c \in Conds : where(c)
  \/ \E b \in Builders, ps \in WidePatches : qbUpdate(b, ps)
  \/ \E b \in Builders : qbDelete(b)

SpecPaths == InitPaths /\ [][NextPaths]_vars

(***************************************************************************)
(* Condition strings built from a left part, an operator symbol (or a      *)
(* blank) and a right part, each parsed by a first store.where(raw).       *)
(***************************************************************************)
LeftParts ==
  {<<"a">>, <<"a", " ">>, <<" ", "p", ".", "q", " ">>, <<>>, <<"a", "=">>}
MidParts == {OperatorValues[i] : i \in 1..Len(OperatorValues)} \cup {<<" ">>}
RightParts ==
  {<<"1">>, <<" ", "1", " ">>, <<"'", "x", "'">>, <<"t", "r", "u", "e">>, <<>>,
   <<"b", "=", "c">>, <<" ", "e", "n", "d", "s", "W", "i", "t", "h">>,
   <<" ", "c", "o", "n", "t", "a", "i", "n", "s">>, <<" ", "x", "!", "=", "y">>}
RawStrings == {l \o m \o r : l \in LeftParts, m \in MidParts, r \in RightParts}

InitParse ==
  /\ file = FileOf(DocTwo)
  /\ writable = TRUE
  /\ torn = FALSE
  /\ LET r == loadData(EmptyMap, file)
     IN /\ heap = r[1]
        /\ sdata = 1
        /\ arrs = [a \in {1} |-> r[2]]
  /\ bld = [b \in Builders |-> NoBuilder]
  /\ cache = EmptyMap
  /\ op = Call("new", 0)
  /\ ret = Void
  /\ steps = 0
  /\ limit = MaxParseCalls
  /\ probe = NoCondition

NextParse == \E raw \in RawStrings : where(StrCond(raw))

SpecParse == InitParse /\ [][NextParse]_vars

(***************************************************************************)
(* evaluateCondition applied to one record and one condition.              *)
(***************************************************************************)
EvalValues ==
  {Undef, Null, Bool(TRUE), Bool(FALSE), Num(0), Num(18), Num(20),
   StrV(<<"1", "8">>), StrV(<<"a", "b">>), StrV(<<"a", "b", "c">>),
   StrV(<<"b", "c">>), StrV(<<>>), Obj(2), Arr(3)}
EvalFields ==
  {KeyA, PathPQ, <<"z">>, <<"a", ".", "q">>, <<"a", ".", "0">>,
   <<"p", ".", "z", ".", "q">>, <<"t", "o", "S", "t", "r", "i", "n", "g">>}
EvalOperators == {OperatorValues[i] : i \in 1..Len(OperatorValues)}

\* the record {a: fv, p: {q: fv}} and a condition over it; object 3 is the
\* array [18]
InitEval ==
  /\ \E fv \in EvalValues :
       heap = [i \in {1, 2, 3} |->
                 CASE i = 1 -> [k \in {KeyA, KeyP} |-> IF k = KeyA THEN fv ELSE Obj(2)]
                   [] i = 2 -> [k \in {KeyQ} |-> fv]
                   [] i = 3 -> [k \in {IndexKey(0), KeyLength} |->
                                  IF k = KeyLength THEN Num(1) ELSE Num(18)]]
  /\ probe \in {Condition(f, o, v) : f \in EvalFields, o \in EvalOperators, v \in EvalValues}
  /\ arrs = [a \in {1} |-> <<Obj(1)>>]
  /\ sdata = 1
  /\ file = NoFile
  /\ writable = TRUE
  /\ torn = FALSE
  /\ bld = [b \in Builders |-> NoBuilder]
  /\ cache = EmptyMap
  /\ op = Call("new", 0)
  /\ ret = Void
  /\ steps = 0
  /\ limit = 0

evaluate ==
  /\ op.name = "new"
  /\ probe.ok
  /\ ret' = Bool(evaluateCondition(heap, arrs[sdata][1], probe))
  /\ op' = Call("evaluateCondition", 0)
  /\ UNCHANGED <<heap, arrs, sdata, file, writable, torn, bld, cache, steps, limit, probe>>

NextEval == evaluate

SpecEval == InitEval /\ [][NextEval]_vars

(***************************************************************************)
(* Properties                                                              *)
(***************************************************************************)
ParseableConds == {c \in Conds : c.fn \/ c.s \in ParseableStrings}
BadConds == {StrCond(s) : s \in BadStrings}

\* whether condition c is true of item in heap h, parsed afresh
Holds(h, c, item) ==
  IF c.fn THEN CallFn(h, c.f, item)
  ELSE evaluateCondition(h, item, ParseWith(c.s, getOperatorsSorted, 1))

\* the records of list l, each with its whole content in heap h
Contents(h, l) == [i \in 1..Len(l) |-> Stringify(h, l[i])]

\* C1: deleteWhere(c), for a parseable condition string or a predicate
\* function c, leaves in the store exactly the records on which c is false,
\* in their original order and unmodified, and when it returns it returns the
\* number of records it removed.
C1_DeleteWhere ==
  [][\A c \in ParseableConds :
       (op'.name = "deleteWhere" /\ deleteWhere(c)) =>
         /\ arrs'[sdata'] = SelectSeq(arrs[sdata], LAMBDA item : ~Holds(heap, c, item))
         /\ Contents(heap', arrs'[sdata']) = Contents(heap, arrs'[sdata'])
         /\ ret' \in {Threw, Count(Len(arrs[sdata]) - Len(arrs'[sdata']))}]_vars

\* a deleteWhere that removed one of two records and returned 1
C1_Witness ==
  /\ op.name = "deleteWhere"
  /\ steps = 1
  /\ file.exists
  /\ ret = Count(1)
  /\ Len(arrs[sdata]) = 1

Range(l) == {l[i] : i \in 1..Len(l)}

\* every key of the patch ps has its value in item, in heap h
PatchApplied(h, item, ps) ==
  \A k \in 1..Len(ps) :
    LET v == getNestedValue(h, item, ps[k][1])
    IN IF Tag(ps[k][2]) = "new" THEN IsObj(v) ELSE v = ps[k][2]

\* C2: updateWhere(c, p), for a parseable condition string or a predicate
\* function c, sets every key of p on exactly the records on which c is true
\* (each tested as it was before the call), leaves every other record and the
\* record list unchanged, and returns the number of records it patched.
C2_UpdateWhere ==
  [][\A c \in ParseableConds, ps \in Patches :
       (op'.name = "updateWhere" /\ updateWhere(c, ps)) =>
         LET l == arrs[sdata]
             hit == {i \in 1..Len(l) : Holds(heap, c, l[i])}
         IN /\ sdata' = sdata
            /\ arrs'[sdata'] = l
            /\ \A i \in hit : PatchApplied(heap', l[i], ps)
            /\ \A i \in (1..Len(l)) \ hit :
                 Stringify(heap', l[i]) = Stringify(heap, l[i])
            /\ ret' \in {Threw, Count(Cardinality(hit))}]_vars

RECURSIVE IsSubseq(_, _)
IsSubseq(s, t) ==
  IF s = <<>> THEN TRUE
  ELSE IF t = <<>> THEN FALSE
       ELSE IF Head(s) = Head(t) THEN IsSubseq(Tail(s), Tail(t))
            ELSE IsSubseq(s, Tail(t))

\* C3: no call widens a builder's working copy: after every call the working
\* copy is an order-preserving subsequence of what it was before the call, and
\* a new builder's working copy is a subsequence of the array it was given.
C3_Narrowing ==
  [][\A b \in Builders :
       /\ bld[b].live => IsSubseq(bld'[b].data, bld[b].data)
       /\ (~bld[b].live /\ bld'[b].live) =>
            IsSubseq(bld'[b].data, arrs'[bld'[b].originalData])]_vars

\* a chained where has narrowed a working copy from two records to one
C3_Witness ==
  \E b \in Builders :
    /\ bld[b].live
    /\ op = Call("QueryBuilder.where", b)
    /\ steps = 2
    /\ Len(bld[b].conditions) = 1
    /\ Len(bld[b].data) = 1
    /\ Len(arrs[bld[b].originalData]) = 2

\* C4: where(s) with a string s in which no operator symbol occurs leaves the
\* builder's working copy as it was before the call and records no condition.
C4_BadWhereNoOp ==
  [][\A c \in BadConds :
       /\ \A b \in Builders :
            (op'.name = "QueryBuilder.where" /\ qbWhere(b, c)) =>
              /\ bld'[b].data = bld[b].data
              /\ bld'[b].conditions = bld[b].conditions
       /\ (op'.name = "where" /\ where(c)) =>
            /\ bld'[FreeSlot].data = arrs[sdata]
            /\ bld'[FreeSlot].conditions = <<>>]_vars

\* the only calls made are where(f) and then where(s) on that builder, s
\* without an operator symbol: both records are still in the working copy
C4_Witness ==
  \E b \in Builders :
    /\ op = Call("QueryBuilder.where", b)
    /\ steps = 2
    /\ DOMAIN cache = BadStrings
    /\ bld[b].conditions = <<>>
    /\ Len(bld[b].data) = 2

\* the one call made so far is store.where(s), s without an operator symbol
BadWhereJustMade ==
  /\ steps = 1
  /\ op.name = "where"
  /\ DOMAIN cache # {}
  /\ DOMAIN cache \subseteq BadStrings

\* C5: a string s without an operator symbol matches nothing: store.where(s)
\* has an empty working copy (count() is 0, get() is empty), and update(p) and
\* delete() on it change no record; delete() returns 0.
C5_BadWhereMatchesNothing ==
  [][/\ \A c \in BadConds :
          (op'.name = "where" /\ where(c)) => bld'[FreeSlot].data = <<>>
     /\ \A ps \in Patches :
          (BadWhereJustMade /\ op'.name = "QueryBuilder.update" /\ qbUpdate(op.b, ps)) =>
            Contents(heap', arrs'[sdata']) = Contents(heap, arrs[sdata])
     /\ (BadWhereJustMade /\ op'.name = "QueryBuilder.delete" /\ qbDelete(op.b)) =>
          /\ arrs'[sdata'] = arrs[sdata]
          /\ ret' \in {Threw, Count(0)}]_vars

\* C6 as stated: updateWhere(s, p) and deleteWhere(s), s without an operator
\* symbol, return 0, raise nothing and leave the records and the list as they
\* were.
C6_BadStringReturnsZero ==
  [][\A c \in BadConds :
       \/ op'.name = "deleteWhere" /\ deleteWhere(c)
       \/ \E ps \in Patches : op'.name = "updateWhere" /\ updateWhere(c, ps)
       =>
       /\ ret' = Count(0)
       /\ arrs'[sdata'] = arrs[sdata]
       /\ Contents(heap', arrs'[sdata']) = Contents(heap, arrs[sdata])]_vars

\* C6 as amended: they leave the records and the list as they were, and
\* return 0 unless the file write fails, in which case they raise.
C6_BadStringNoChange ==
  [][\A c \in BadConds :
       \/ op'.name = "deleteWhere" /\ deleteWhere(c)
       \/ \E ps \in Patches : op'.name = "updateWhere" /\ updateWhere(c, ps)
       =>
       /\ ret' = IF writable THEN Count(0) ELSE Threw
       /\ arrs'[sdata'] = arrs[sdata]
       /\ Contents(heap', arrs'[sdata']) = Contents(heap, arrs[sdata])]_vars

\* the one call made is updateWhere(s, p), s without an operator symbol, on a
\* store of two records: it returned 0
C6_Witness ==
  /\ steps = 1
  /\ op.name = "updateWhere"
  /\ DOMAIN cache # {}
  /\ DOMAIN cache \subseteq BadStrings
  /\ Len(arrs[sdata]) = 2
  /\ ret = Count(0)

StoreMutators == {"insert", "insertMany", "clear", "updateWhere", "deleteWhere"}
BuilderMutators == {"QueryBuilder.update", "QueryBuilder.delete"}

\* C7: when no write fails, right after a mutating call returns (a store
\* mutator, or update or delete on a builder with a parent) the file holds the
\* serialization of the store's current record array.
C7_FilePersisted ==
  (/\ writable
   /\ \/ op.name \in StoreMutators
      \/ op.name \in BuilderMutators /\ bld[op.b].parent)
  => file = FileOf(StringifyData(heap, arrs[sdata]))

\* an update through a builder made before the store replaced its array
C7_Witness ==
  /\ writable
  /\ steps = 3
  /\ op.name = "QueryBuilder.update"
  /\ bld[op.b].parent
  /\ file.exists
  /\ Len(file.content[2]) = 2
  /\ \E i \in 1..2 : KeyP \in DOMAIN file.content[2][i][2]

\* C8: update(p) on a builder sets every key of p on every record of the
\* working copy and on no other record, and the store's record list is the
\* same after the call as before it: same records, same order.
C8_UpdateFrame ==
  [][\A b \in Builders, ps \in Patches :
       (op'.name = "QueryBuilder.update" /\ qbUpdate(b, ps)) =>
         LET l == arrs[sdata]
             w == bld[b].data
         IN /\ arrs'[sdata'] = l
            /\ \A i \in 1..Len(w) : PatchApplied(heap', w[i], ps)
            /\ \A i \in 1..Len(l) :
                 l[i] \notin Range(w) => Stringify(heap', l[i]) = Stringify(heap, l[i])]_vars

\* C9: delete() on a builder made by store.where returns the number of
\* elements the call removed from the store's record list.
C9_DeleteCount ==
  [][\A b \in Builders :
       (op'.name = "QueryBuilder.delete" /\ qbDelete(b) /\ bld[b].parent) =>
         ret' \in {Threw, Count(Len(arrs[sdata]) - Len(arrs'[sdata']))}]_vars

\* equality of type and value
StrictEqual(x, y) == Tag(x) = Tag(y) /\ x[2] = y[2]

\* t occurs in s from position i (counted from 1)
Infix(s, t, i) == i + Len(t) - 1 <= Len(s) /\ SubSeq(s, i, i + Len(t) - 1) = t

\* the result C10 states for operator o, resolved field value f and value v
Stated(o, f, v) ==
  LET nums == IsNum(f) /\ IsNum(v)
      strs == IsStr(f) /\ IsStr(v)
  IN CASE o = <<"=">> -> StrictEqual(f, v)
       [] o = <<"!", "=">> -> ~StrictEqual(f, v)
       [] o = <<">">> -> nums /\ f[2] > v[2]
       [] o = <<"<">> -> nums /\ f[2] < v[2]
       [] o = <<">", "=">> -> nums /\ f[2] >= v[2]
       [] o = <<"<", "=">> -> nums /\ f[2] <= v[2]
       [] o = queryOperators.contains ->
            strs /\ \E i \in 1..(Len(f[2]) + 1) : Infix(f[2], v[2], i)
       [] o = queryOperators.startsWith -> strs /\ Infix(f[2], v[2], 1)
       [] o = queryOperators.endsWith ->
            strs /\ Len(v[2]) <= Len(f[2])
                 /\ Infix(f[2], v[2], Len(f[2]) - Len(v[2]) + 1)

\* C10: evaluateCondition returns strict equality for =, its negation for !=,
\* the numeric relation for >, <, >=, <= when both sides are numbers and false
\* otherwise, the string relation for contains, startsWith, endsWith when both
\* sides are strings and false otherwise, and changes neither the record nor
\* the condition.
C10_Evaluate ==
  [][evaluate =>
       /\ ret' = Bool(Stated(probe.operator,
                             getNestedValue(heap, Obj(1), probe.field),
                             probe.value))
       /\ heap' = heap
       /\ probe' = probe]_vars

\* "a >= 18" evaluated on a record whose a is the string "18": false
C10_Witness ==
  /\ op.name = "evaluateCondition"
  /\ probe = Condition(KeyA, queryOperators.gte, Num(18))
  /\ heap[1][KeyA] = StrV(<<"1", "8">>)
  /\ ret = Bool(FALSE)

\* the walk over own properties of maps only: some segment of keys is absent,
\* or the value reached before the last segment is not a map
RECURSIVE Dangling(_, _, _)
Dangling(h, current, keys) ==
  IF keys = <<>> THEN FALSE
  ELSE IF Tag(current) # "obj" THEN TRUE
       ELSE IF Head(keys) \notin DOMAIN h[current[2]] THEN TRUE
            ELSE Dangling(h, h[current[2]][Head(keys)], Tail(keys))

\* C11: when a segment of the field's path is absent from the record, or the
\* value reached at an intermediate segment is not a map, the condition
\* "field = v" is true of the record exactly when v is undefined.
C11_AbsentIsUndefined ==
  [][(/\ evaluate
      /\ probe.operator = queryOperators.eq
      /\ Dangling(heap, Obj(1), SplitDot(probe.field)))
     => ret' = Bool(probe.value = Undef)]_vars

\* C12: the parse cache only grows: an entry, once made, is never changed or
\* removed by any call, and a later where(s) on any builder takes the entry of
\* s from the cache (the condition it records is that entry; an entry
\* "unparseable" records nothing).
C12_CacheGrows ==
  [][/\ \A s \in DOMAIN cache : s \in DOMAIN cache' /\ cache'[s] = cache[s]
     /\ \A b \in Builders, s \in DOMAIN cache :
          (op'.name = "QueryBuilder.where" /\ qbWhere(b, StrCond(s))) =>
            bld'[b].conditions =
              IF cache[s].ok THEN Append(bld[b].conditions, cache[s])
              ELSE bld[b].conditions]_vars

\* two strings are cached, and a builder has applied one string twice, the
\* second time from the cache
C12_Witness ==
  \E b \in Builders :
    /\ op = Call("QueryBuilder.where", b)
    /\ Cardinality(DOMAIN cache) = 2
    /\ Len(bld[b].conditions) = 2
    /\ bld[b].conditions[1] = bld[b].conditions[2]

\* the whole content of value v in heap h, every own property included
RECURSIVE Deep(_, _)
Deep(h, v) ==
  CASE IsArray(v) ->
         LET m == h[v[2]]
         IN <<"arr", [i \in 1..m[KeyLength][2] |-> Deep(h, m[IndexKey(i - 1)])]>>
    [] IsObj(v) -> <<"map", [k \in DOMAIN h[v[2]] |-> Deep(h, h[v[2]][k])]>>
    [] OTHER -> v

DeepList(h, l) == [i \in 1..Len(l) |-> Deep(h, l[i])]

MutatingCall ==
  \/ op'.name \in StoreMutators
  \/ op'.name \in BuilderMutators /\ bld[op'.b].parent

\* what each mutating call does to the records in memory
MutationKept ==
  /\ \A t \in InsertRecords :
       (op'.name = "insert" /\ insertNew(t)) =>
         DeepList(heap', arrs'[sdata']) = Append(DeepList(heap, arrs[sdata]), t)
  /\ \A i \in 1..Len(arrs[sdata]) :
       (op'.name = "insert" /\ insertSame(i)) =>
         arrs'[sdata'] = Append(arrs[sdata], arrs[sdata][i])
  /\ (op'.name = "insertMany" /\ insertMany(RecA2)) =>
       DeepList(heap', arrs'[sdata']) =
         Append(DeepList(heap, arrs[sdata]), <<"map", RecA2>>)
  /\ (op'.name = "clear" /\ clear) => arrs'[sdata'] = <<>>
  /\ \A c \in ParseableConds :
       (op'.name = "deleteWhere" /\ deleteWhere(c)) =>
         arrs'[sdata'] = SelectSeq(arrs[sdata], LAMBDA item : ~Holds(heap, c, item))
  /\ \A c \in ParseableConds, ps \in Patches :
       (op'.name = "updateWhere" /\ updateWhere(c, ps)) =>
         \A i \in 1..Len(arrs[sdata]) :
           Holds(heap, c, arrs[sdata][i]) => PatchApplied(heap', arrs[sdata][i], ps)
  /\ \A b \in Builders, ps \in Patches :
       (op'.name = "QueryBuilder.update" /\ qbUpdate(b, ps)) =>
         /\ sdata' = bld[b].originalData
         /\ \A i \in 1..Len(bld[b].data) : PatchApplied(heap', bld[b].data[i], ps)
  /\ \A b \in Builders :
       (op'.name = "QueryBuilder.delete" /\ qbDelete(b)) =>
         /\ sdata' = bld[b].originalData
         /\ bld'[b].data = <<>>
         /\ Range(arrs'[sdata']) \cap Range(bld[b].data) = {}

\* C14: when the file write fails during a mutating call (insert, insertMany,
\* clear, updateWhere, deleteWhere, update or delete on a builder with a
\* parent), the call raises, the mutation is kept in memory and the file is
\* left as it was before the call.
C14_WriteFailure ==
  [][(~writable /\ MutatingCall) =>
       /\ ret' = Threw
       /\ MutationKept
       /\ file' = file]_vars

\* the record list C15 states for a file
Loaded(f) ==
  IF ~f.exists \/ ~f.readable \/ f.content = Garbled THEN <<>>
  ELSE IF Tag(f.content) = "arr" THEN f.content[2]
       ELSE <<f.content>>

\* C15: right after construction and right after reload() nothing was raised
\* and the record list is empty for a missing file, a text that is not JSON
\* or a file that cannot be read, the file's array for a JSON array, and the
\* one-element list of the file's object for a single object.
C15_LoadNeverRaises ==
  (steps = 0 \/ op.name = "reload") =>
    /\ ret = Void
    /\ DeepList(heap, arrs[sdata]) = Loaded(file)

\* a reload after a failed write had left a text that is not JSON: no record
C15_Witness ==
  /\ steps = 2
  /\ op.name = "reload"
  /\ file.content = Garbled
  /\ torn
  /\ arrs[sdata] = <<>>

\* C16: delete() on a builder removes from the backing array every occurrence
\* of every element of the working copy and nothing else, keeps the order of
\* the rest, empties the working copy and hands the backing array to the
\* parent store; a second delete() on the builder removes nothing and, when
\* it returns, returns 0.
C16_BuilderDelete ==
  [][\A b \in Builders :
       (op'.name = "QueryBuilder.delete" /\ qbDelete(b)) =>
         LET q == bld[b]
             back == arrs[q.originalData]
         IN /\ arrs'[q.originalData] =
                 SelectSeq(back, LAMBDA x : x \notin Range(q.data))
            /\ bld'[b].data = <<>>
            /\ q.parent => sdata' = q.originalData
            /\ ~q.parent => sdata' = sdata
            /\ op = Call("QueryBuilder.delete", b) =>
                 /\ arrs'[q.originalData] = back
                 /\ ret' \in {Threw, Count(0)}]_vars

\* where(s), delete(), delete() on a store of two records: the first delete
\* removed one record, the second returned 0
C16_Witness ==
  \E b \in Builders :
    /\ steps = 3
    /\ op = Call("QueryBuilder.delete", b)
    /\ bld[b].conditions # <<>>
    /\ ret = Count(0)
    /\ Len(arrs[sdata]) = 1

\* C17: the backing array of every builder made by store.where holds the
\* same list as the store's current record array, whatever calls were made
\* since the builder was created.
C17_BackingIsLive ==
  \A b \in Builders :
    (bld[b].live /\ bld[b].parent) => arrs[bld[b].originalData] = arrs[sdata]

\* C18: in every reachable state every record in the working copy of a
\* builder made by store.where is an element of the store's current record
\* list.
C18_ViewWithinStore ==
  \A b \in Builders :
    (bld[b].live /\ bld[b].parent) => Range(bld[b].data) \subseteq Range(arrs[sdata])

ParseableStringConds == {StrCond(s) : s \in ParseableStrings}

\* the builder store.where(c) would return in the current state
FreshWhere(c) == WhereOn(heap, cache, NewQueryBuilder(arrs, sdata, TRUE), c)

\* the records where(c).update(ps) would leave, made in the current state
ViaBuilderUpdate(c, ps) ==
  LET lit == Literal(heap, ps, 1, <<>>)
      h == UpdateItems(lit[1], FreshWhere(c).data, 1, lit[2])
  IN DeepList(h, arrs[sdata])

\* the records updateWhere(c, ps) would leave, made in the current state
ViaUpdateWhere(c, ps) ==
  LET lit == Literal(heap, ps, 1, <<>>)
      r == UpdateLoop(lit[1], arrs[sdata], 1, CacheAfterParse(cache, c.s), c, lit[2], 0)
  IN DeepList(r[1], arrs[sdata])

\* the text written for a list of records
Written(deep) == <<"arr", deep>>

\* C19: with a parseable condition string c, updateWhere(c, p) and
\* where(c).update(p) leave the same records and the same file content, and
\* deleteWhere(c) and where(c).delete() leave the same records in the same
\* order and the same file content and return the same count.  Each call
\* that is made is compared with what the other path makes of the same state.
C19_PathsAgree ==
  [][/\ \A c \in ParseableStringConds, ps \in WidePatches :
          (op'.name = "updateWhere" /\ updateWhere(c, ps)) =>
            /\ DeepList(heap', arrs'[sdata']) = ViaBuilderUpdate(c, ps)
            /\ writable => file'.content = Written(ViaBuilderUpdate(c, ps))
     /\ \A c \in ParseableStringConds, ps \in WidePatches, b \in Builders :
          (/\ op = Call("where", b)
           /\ bld[b].conditions = <<ParseWith(c.s, getOperatorsSorted, 1)>>
           /\ op'.name = "QueryBuilder.update" /\ qbUpdate(b, ps)) =>
            /\ DeepList(heap', arrs'[sdata']) = ViaUpdateWhere(c, ps)
            /\ writable => file'.content = Written(ViaUpdateWhere(c, ps))
     /\ \A c \in ParseableStringConds :
          (op'.name = "deleteWhere" /\ deleteWhere(c)) =>
            LET w == FreshWhere(c).data
                l == DeleteLoop(arrs[sdata], Len(arrs[sdata]), Range(w))
            IN /\ arrs'[sdata'] = l
               /\ ret' \in {Threw, Count(Len(w))}
               /\ writable => file'.content = Written(DeepList(heap, l))
     /\ \A c \in ParseableStringConds, b \in Builders :
          (/\ op = Call("where", b)
           /\ bld[b].conditions = <<ParseWith(c.s, getOperatorsSorted, 1)>>
           /\ op'.name = "QueryBuilder.delete" /\ qbDelete(b)) =>
            LET l == SelectSeq(arrs[sdata], LAMBDA item : ~Holds(heap, c, item))
            IN /\ arrs'[sdata'] = l
               /\ ret' \in {Threw, Count(Len(arrs[sdata]) - Len(l))}
               /\ writable => file'.content = Written(DeepList(heap, l))]_vars

\* the operator symbols that occur somewhere in raw
Occurring(raw) ==
  {o \in MidParts \ {<<" ">>} : \E i \in 1..Len(raw) : Infix(raw, o, i)}

\* raw split at the leftmost occurrence of symbol o
SplitAt(raw, o) ==
  LET i == CHOOSE k \in 1..Len(raw) :
             Infix(raw, o, k) /\ \A j \in 1..(k - 1) : ~Infix(raw, o, j)
  IN Condition(Trim(SubSeq(raw, 1, i - 1)), o,
               parseSpecialValue(stripQuotes(Trim(SubSeq(raw, i + Len(o), Len(raw))))))

\* C20: the parse of a string raw that is not yet cached is none exactly when
\* no operator symbol occurs in raw; otherwise its operator is a symbol that
\* occurs in raw and no longer symbol occurs anywhere in raw, raw is split at
\* the first occurrence of that symbol, the field is the trimmed text before
\* it and the value is derived from the trimmed text after it.
C20_ParseSplits ==
  [][\A raw \in DOMAIN cache' \ DOMAIN cache :
       (op'.name = "where" /\ where(StrCond(raw))) =>
         LET r == cache'[raw]
             occ == Occurring(raw)
         IN /\ r.ok <=> occ # {}
            /\ occ # {} =>
                 /\ r.operator \in occ
                 /\ \A o \in occ : Len(o) <= Len(r.operator)
                 /\ r = SplitAt(raw, r.operator)]_vars

\* "a >= 1" was parsed: field a, operator >=, value 1
C20_Witness ==
  LET raw == <<"a", " ", ">", "=", " ", "1", " ">>
  IN /\ raw \in DOMAIN cache
     /\ cache[raw] = Condition(<<"a">>, <<">", "=">>, Num(1))

(***************************************************************************)
(* Condition strings "a = <text>" whose text is a word, blank or not,      *)
(* with or without quotes and white space around it.                       *)
(***************************************************************************)
Pads == {<<>>, <<" ">>}
Quotes == {<<>>, <<"\"">>, <<"'">>}
Words ==
  {<<>>, <<" ">>, <<"1", "8">>, <<" ", "1", "8", " ">>, <<"x">>,
   <<"t", "r", "u", "e">>, <<"f", "a", "l", "s", "e">>, <<"n", "u", "l", "l">>,
   <<"u", "n", "d", "e", "f", "i", "n", "e", "d">>, <<"'", "0", "'">>}
ValueTexts ==
  {p1 \o q1 \o w \o q2 \o p2 :
     p1 \in Pads, q1 \in Quotes, w \in Words, q2 \in Quotes, p2 \in Pads}
ValueStrings == {<<"a", " ", "=">> \o t : t \in ValueTexts}

NextValues == \E raw \in ValueStrings : where(StrCond(raw))

SpecValues == InitParse /\ [][NextValues]_vars

\* a first parse of raw is being made by store.where
FirstParse(raw) == op'.name = "where" /\ where(StrCond(raw))

\* one layer of surrounding quotes removed, as the claim states it
DequoteAsStated(s) ==
  IF s # <<>> /\ s[1] = s[Len(s)] /\ s[1] \in {"\"", "'"}
  THEN IF Len(s) <= 2 THEN <<>> ELSE Sub(s, 2, Len(s) - 1)
  ELSE s

\* the typing of a dequoted text, as the claim states it
TypeAsStated(s) ==
  CASE s = <<"t", "r", "u", "e">> -> Bool(TRUE)
    [] s = <<"f", "a", "l", "s", "e">> -> Bool(FALSE)
    [] s = <<"n", "u", "l", "l">> -> Null
    [] s = <<"u", "n", "d", "e", "f", "i", "n", "e", "d">> -> Undef
    [] OTHER -> IF s # <<>> /\ \A i \in 1..Len(s) : IsDigit(s[i])
                THEN Num(DecimalValue(s))
                ELSE StrV(s)

\* the text after the operator at which raw was split
TextAfter(raw, r) == SubstringFrom(raw, IndexOf(raw, r.operator) + Len(r.operator))

\* C23: the value of a parsed condition is the text after the operator,
\* trimmed, then without one layer of surrounding quotes, then typed: true,
\* false, null and undefined become those values, a non-empty numeric
\* literal becomes a number and anything else stays the same string.
C23_ValueTyping ==
  [][\A raw \in DOMAIN cache' \ DOMAIN cache :
       (FirstParse(raw) /\ cache'[raw].ok) =>
         cache'[raw].value =
           TypeAsStated(DequoteAsStated(Trim(TextAfter(raw, cache'[raw]))))]_vars

(***************************************************************************)
(* The reading calls of the store and of a builder, next to the calls that *)
(* change records, and a caller that changes the lists it was handed.      *)
(***************************************************************************)
InitReads ==
  /\ file = FileOf(DocTwo)
  /\ writable = TRUE
  /\ torn = FALSE
  /\ LET r == loadData(EmptyMap, file)
     IN /\ heap = r[1]
        /\ sdata = 1
        /\ arrs = [a \in {1} |-> r[2]]
  /\ bld = [b \in Builders |-> NoBuilder]
  /\ cache = EmptyMap
  /\ op = Call("new", 0)
  /\ ret = Void
  /\ steps = 0
  /\ limit = MaxReadSteps
  /\ probe = NoCondition

NextReads ==
  \/ get
  \/ \E c \in Conds : where(c)
  \/ \E b \in Builders : qbCount(b)
  \/ \E b \in Builders : qbFirst(b)
  \/ \E b \in Builders : qbGet(b)
  \/ \E b \in Builders, ps \in Patches : qbUpdate(b, ps)
  \/ \E b \in Builders : qbDelete(b)
  \/ returnedPush
  \/ returnedPop

SpecReads == InitReads /\ [][NextReads]_vars

(***************************************************************************)
(* Stores loaded from JSON documents that are not lists of maps: null, a   *)
(* number, a string, a boolean, a map, and lists that hold such values.    *)
(***************************************************************************)
ScalarDocs ==
  {Null, Num(5), StrV(<<"x">>), Bool(TRUE), DocA1, DocTwo,
   <<"arr", <<DocA1, Null>>>>,
   <<"arr", <<Num(1), DocA1>>>>,
   <<"arr", <<StrV(<<"x">>), <<"arr", <<Num(18)>>>>>>>>}

\* "a != 1"
CondANot1 == <<"a", " ", "!", "=", " ", "1">>
ScalarStrings == ParseableStrings \cup {CondANot1}
ScalarConds == {StrCond(s) : s \in ScalarStrings}

InitScalars ==
  /\ file \in {FileOf(d) : d \in ScalarDocs}
  /\ writable = TRUE
  /\ torn = FALSE
  /\ LET r == loadData(EmptyMap, file)
     IN /\ heap = r[1]
        /\ sdata = 1
        /\ arrs = [a \in {1} |-> r[2]]
  /\ bld = [b \in Builders |-> NoBuilder]
  /\ cache = EmptyMap
  /\ op = Call("new", 0)
  /\ ret = Void
  /\ steps = 0
  /\ limit = MaxScalarSteps
  /\ probe = NoCondition

NextScalars ==
  \/ \E c \in ScalarConds : where(c)
  \/ \E c \in ScalarConds, ps \in Patches : updateWhere(c, ps)
  \/ \E c \in ScalarConds : deleteWhere(c)

SpecScalars == InitScalars /\ [][NextScalars]_vars

\* C24: on a store loaded from any valid JSON document, where, updateWhere
\* and deleteWhere with a parseable condition string complete without
\* raising, and evaluate yields a boolean, without raising, for every
\* element of the record list.
C24_NeverRaises ==
  op.name \in {"where", "updateWhere", "deleteWhere"} =>
    /\ ret # Threw
    /\ \A i \in 1..Len(arrs[sdata]), str \in ScalarStrings :
         LET parsed == parseCondition(cache, str)
         IN /\ ~evaluateThrows(arrs[sdata][i], parsed)
            /\ evaluateCondition(heap, arrs[sdata][i], parsed) \in BOOLEAN

(***************************************************************************)
(* Dotted patch keys on one record whose key a is absent or holds null, a  *)
(* boolean, a number, a string, an array or a map.                         *)
(***************************************************************************)
KeyR == <<"r">>
PathAQ == <<"a", ".", "q">>
PathAQR == <<"a", ".", "q", ".", "r">>

NestedValues ==
  {Null, Bool(TRUE), Num(1), StrV(<<"x">>), <<"arr", <<Num(18)>>>>,
   <<"map", [k \in {KeyQ, KeyP} |-> IF k = KeyQ THEN Num(0) ELSE Num(5)]>>,
   <<"map", [k \in {KeyQ} |-> <<"map", [j \in {KeyR} |-> Num(1)]>>]>>}

\* {p: 5} and {a: x, p: 5}
NestedRecords ==
  {<<"map", [k \in {KeyP} |-> Num(5)]>>}
    \cup {<<"map", [k \in {KeyA, KeyP} |-> IF k = KeyA THEN x ELSE Num(5)]>> :
            x \in NestedValues}

\* {'a.q': 7}, {'a.q.r': 7} and {'a.q': {}}
PatchAQ == <<<<PathAQ, Num(7)>>>>
PatchAQR == <<<<PathAQR, Num(7)>>>>
PatchAQObj == <<<<PathAQ, <<"new", EmptyMap>>>>>>
NestedPatches == {PatchAQ, PatchAQR, PatchAQObj}

InitNested ==
  /\ file \in {FileOf(<<"arr", <<t>>>>) : t \in NestedRecords}
  /\ writable = TRUE
  /\ torn = FALSE
  /\ LET r == loadData(EmptyMap, file)
     IN /\ heap = r[1]
        /\ sdata = 1
        /\ arrs = [a \in {1} |-> r[2]]
  /\ bld = [b \in Builders |-> NoBuilder]
  /\ cache = EmptyMap
  /\ op = Call("new", 0)
  /\ ret = Void
  /\ steps = 0
  /\ limit = MaxNestedSteps
  /\ probe = NoCondition

NextNested ==
  \/ \E c \in Conds, ps \in NestedPatches : updateWhere(c, ps)
  \/ \E c \in Conds : where(c)
  \/ \E b \in Builders, ps \in NestedPatches : qbUpdate(b, ps)

SpecNested == InitNested /\ [][NextNested]_vars

\* a value with everything reachable from it: an object or array becomes
\* <<tag, [own property -> shape]>>
RECURSIVE Shape(_, _)
Shape(h, v) ==
  IF IsObj(v) THEN <<Tag(v), [k \in DOMAIN h[v[2]] |-> Shape(h, h[v[2]][k])]>>
  ELSE v

EmptyShape == <<"obj", EmptyMap>>
PatchValueShape(v) == IF Tag(v) = "new" THEN <<"obj", v[2]>> ELSE v

\* the shape a map of shape t has once the segments keys are set to val as
\* the claim states it: a map at an intermediate segment is kept, anything
\* else there is replaced by an empty map
RECURSIVE SetAsStated(_, _, _)
SetAsStated(t, keys, val) ==
  LET key == Head(keys)
      f == t[2]
      sub == IF key \in DOMAIN f /\ Tag(f[key]) = "obj" THEN f[key] ELSE EmptyShape
      new == IF Len(keys) = 1 THEN val ELSE SetAsStated(sub, Tail(keys), val)
  IN <<"obj", [k \in DOMAIN f \cup {key} |-> IF k = key THEN new ELSE f[k]]>>

\* item, patched with the one dotted key of ps, is as the claim states
SetAsClaimed(item, ps) ==
  /\ Shape(heap', item) =
       SetAsStated(Shape(heap, item), SplitDot(ps[1][1]), PatchValueShape(ps[1][2]))
  /\ ps[1][1] \notin DOMAIN heap'[item[2]]

\* C22: a dotted patch key set by updateWhere or by a builder's update keeps
\* a map found at an intermediate segment with its other keys, replaces an
\* absent key or any other value there (null, boolean, number, string,
\* array) by a fresh empty map, sets the last segment to the patch value and
\* creates no top-level key named by the whole dotted string.
C22_DottedKey ==
  [][\A ps \in NestedPatches :
       /\ (op'.name = "updateWhere" /\ updateWhere(FnCond("all"), ps)) =>
            \A i \in 1..Len(arrs[sdata]) : SetAsClaimed(arrs[sdata][i], ps)
       /\ \A b \in Builders :
            (op'.name = "QueryBuilder.update" /\ qbUpdate(b, ps)) =>
              \A i \in 1..Len(bld[b].data) : SetAsClaimed(bld[b].data[i], ps)]_vars

\* the place of symbol o in the order in which parse tries the symbols
Place(o) == CHOOSE i \in 1..Len(getOperatorsSorted) : getOperatorsSorted[i] = o

WordSymbols == {queryOperators.contains, queryOperators.startsWith, queryOperators.endsWith}
OtherSymbols == (MidParts \ {<<" ">>}) \ WordSymbols

\* C21 as stated: startsWith and endsWith are tried before contains, the
\* three before every other symbol, and a string in which both endsWith and
\* contains occur is split at endsWith.
C21_EndsWithBeforeContains ==
  [][\A raw \in DOMAIN cache' \ DOMAIN cache :
       FirstParse(raw) =>
         /\ Place(queryOperators.startsWith) < Place(queryOperators.contains)
         /\ Place(queryOperators.endsWith) < Place(queryOperators.contains)
         /\ \A w \in WordSymbols, o \in OtherSymbols : Place(w) < Place(o)
         /\ {queryOperators.endsWith, queryOperators.contains} \subseteq Occurring(raw)
              => cache'[raw].operator = queryOperators.endsWith]_vars

\* C21 as amended: startsWith is tried before contains and contains before
\* endsWith, the three before every other symbol, and a string in which both
\* endsWith and contains occur, and startsWith does not, is split at contains.
C21_ContainsBeforeEndsWith ==
  [][\A raw \in DOMAIN cache' \ DOMAIN cache :
       FirstParse(raw) =>
         /\ Place(queryOperators.startsWith) < Place(queryOperators.contains)
         /\ Place(queryOperators.contains) < Place(queryOperators.endsWith)
         /\ \A w \in WordSymbols, o \in OtherSymbols : Place(w) < Place(o)
         /\ (/\ {queryOperators.endsWith, queryOperators.contains} \subseteq Occurring(raw)
             /\ queryOperators.startsWith \notin Occurring(raw))
              => cache'[raw].operator = queryOperators.contains]_vars

\* "a endsWith contains" was parsed: it was split at contains
C21_Witness ==
  LET raw == <<"a", " ">> \o queryOperators.endsWith \o <<" ">> \o queryOperators.contains
  IN /\ raw \in DOMAIN cache
     /\ cache[raw] =
          Condition(<<"a", " ">> \o queryOperators.endsWith, queryOperators.contains, StrV(<<>>))

\* item satisfies every condition builder b has recorded
Satisfies(b, item) ==
  \A j \in 1..Len(bld[b].conditions) :
    evaluateCondition(heap, item, bld[b].conditions[j])

\* C25: every record a builder returns from get() or first(), or counts in
\* count(), satisfies every condition the builder has recorded, also after
\* update(p) on that builder or on another builder sharing the records.
C25_ResultsSatisfyConditions ==
  /\ op.name = "QueryBuilder.get" =>
       \A i \in 1..Len(ret[2]) : Satisfies(op.b, ret[2][i])
  /\ (op.name = "QueryBuilder.first" /\ ret # Null) => Satisfies(op.b, ret)
  /\ op.name = "QueryBuilder.count" =>
       /\ ret = Count(Len(bld[op.b].data))
       /\ \A i \in 1..Len(bld[op.b].data) : Satisfies(op.b, bld[op.b].data[i])

ReadCalls == {"get", "QueryBuilder.get", "QueryBuilder.first", "QueryBuilder.count"}
CallerCalls == {"returned.push", "returned.pop"}

\* C26: get(), first() and count() of a builder and get() of the store leave
\* the working copies, the recorded conditions, the backing arrays, every
\* record, the parse cache and the file as they were; the list a get()
\* returns is a new list with the elements of the working copy (of the
\* store's list), and adding to it or removing from it changes none of
\* these either; update() leaves the working copy of its builder as it was
\* and delete() empties it.
C26_ReadsChangeNothing ==
  [][/\ op'.name \in ReadCalls \cup CallerCalls =>
          UNCHANGED <<heap, arrs, sdata, bld, cache, file>>
     /\ op'.name = "get" => ret' = List(arrs[sdata])
     /\ op'.name = "QueryBuilder.get" => ret' = List(bld[op'.b].data)
     /\ op'.name = "QueryBuilder.first" =>
          ret' = IF bld[op'.b].data = <<>> THEN Null ELSE bld[op'.b].data[1]
     /\ op'.name = "QueryBuilder.count" => ret' = Count(Len(bld[op'.b].data))
     /\ op'.name \in CallerCalls => Tag(ret') = "list" /\ ret' # ret
     /\ op'.name = "QueryBuilder.update" =>
          [b \in Builders |-> bld'[b].data] = [b \in Builders |-> bld[b].data]
     /\ op'.name = "QueryBuilder.delete" =>
          /\ bld'[op'.b].data = <<>>
          /\ \A b \in Builders \ {op'.b} : bld'[b].data = bld[b].data]_vars

\* a builder holds records, and the caller added a record to the list the
\* store's get() returned: the store's list still has its two records
C26_Witness ==
  /\ op = Call("returned.push", 0)
  /\ Len(arrs[sdata]) = 2
  /\ ret = List(Append(arrs[sdata], arrs[sdata][1]))
  /\ \E b \in Builders : bld[b].live /\ bld[b].data # <<>>

====
